---------------------------- MODULE Spec2Model ----------------------------
(***************************************************************************)
(* Wx-gh-mcp-reg-tool: an MCP server that searches a remote markdown       *)
(* registry and edits a local JSON config file (mcp-config.json).          *)
(*                                                                         *)
(* The repository holds two listings of the server: src/index.js, whose    *)
(* request handler registers three tools, and the listing embedded in      *)
(* src/README.md, which registers eight.  The handlers both listings have  *)
(* (search, list, install) are the same text; uninstall, list_installed,   *)
(* update_config, get_details and backup exist only in the README listing. *)
(*                                                                         *)
(* Encodings.  An optional JavaScript value is a sequence of length 0      *)
(* (undefined) or 1.  A JSON object whose key order matters (mcpServers)   *)
(* is a sequence of [name, cfg] pairs with distinct names, in insertion    *)
(* order.  A URL is the sequence of its "/"-separated segments.            *)
(***************************************************************************)
EXTENDS Integers, Sequences, FiniteSets, TLC

VARIABLES
  file,       \* the config file at configPath
  backups,    \* the backup files beside it: a set of [path, data]
  clock,      \* the wall clock, in whole seconds
  inherited,  \* own properties that calls have put on Object.prototype.toString
  readme,     \* the remote registry document (GITHUB_README_URL)
  req,        \* the last tools/call request: its tool name and arguments
  prev,       \* the files and the prototype as that request found them
  resp,       \* the outcome of that request
  calls,      \* the tools/call requests whose handlers are suspended at an await
  pager       \* a client that pages through list_all_github_mcp_servers

vars == <<file, backups, clock, inherited, readme, req, prev, resp, calls, pager>>

None == <<>>
Some(v) == <<v>>
IsSome(o) == o # <<>>

Min(S) == CHOOSE m \in S : \A n \in S : m <= n

\* Array.prototype.filter with the test given as the set of kept indexes
SelectSeq2(s, keep) ==
  LET indexed == [i \in 1..Len(s) |-> <<i, s[i]>>]
      kept == SelectSeq(indexed, LAMBDA p : p[1] \in keep)
  IN [k \in 1..Len(kept) |-> kept[k][2]]

(***************************************************************************)
(* Bounds of the model.                                                    *)
(***************************************************************************)
MaxClock == 1

(***************************************************************************)
(* The config file.                                                        *)
(***************************************************************************)
\* names every plain object inherits from Object.prototype (one suffices)
InheritedNames == {"toString"}

OwnNames == {"playwright", "demo"}

ServerNames == OwnNames \cup InheritedNames

\* a slip: the default config lacks its alwaysAllow list
EmptyConfig_NoRules == [mcpServers |-> Some(<<>>), alwaysAllow |-> None]

\* { mcpServers: {}, alwaysAllow: [] }
EmptyConfig == [mcpServers |-> Some(<<>>), alwaysAllow |-> Some(<<>>)]

FileAbsent == [st |-> "absent"]
FileGarbled == [st |-> "garbled"]
FileOf(cfg, pretty) == [st |-> "ok", cfg |-> cfg, pretty |-> pretty]

\* Object.keys(obj)
Keys(servers) == [i \in 1..Len(servers) |-> servers[i].name]

IndexOf(servers, name) ==
  LET hits == {i \in 1..Len(servers) : servers[i].name = name}
  IN IF hits = {} THEN 0 ELSE Min(hits)

\* obj[name] as a truthiness test: an own key, or a member of the prototype
HasProperty(servers, name) ==
  IndexOf(servers, name) # 0 \/ name \in InheritedNames

\* obj[name] = cfg: overwrite in place, or append a new key
SetServer(servers, name, cfg) ==
  LET i == IndexOf(servers, name)
  IN IF i = 0 THEN Append(servers, [name |-> name, cfg |-> cfg])
     ELSE [servers EXCEPT ![i] = [name |-> name, cfg |-> cfg]]

\* a slip: the whole map is cleared instead of one key
DeleteServer_ClearsAll(servers, name) == <<>>

\* delete obj[name]
DeleteServer(servers, name) ==
  SelectSeq2(servers, {i \in 1..Len(servers) : servers[i].name # name})

\* a slip: the rules are written back unfiltered
PruneAllow_KeepsAll(allow, name) == allow

\* alwaysAllow.filter(item => item.server !== server_name)
PruneAllow(allow, name) ==
  SelectSeq2(allow, {i \in 1..Len(allow) : allow[i].server # name})

GetServer(servers, name) == servers[IndexOf(servers, name)].cfg

(***************************************************************************)
(* GitHub URLs.                                                            *)
(***************************************************************************)
\* segments that end in the text "github.com"
GithubHosts == {"github.com", "www.github.com"}

\* a slip: any host followed by two segments is taken for a repository
GithubMatch_AnyHost(segs) ==
  LET at == {i \in 1..(Len(segs) - 2) :
               segs[i] # "" /\ segs[i + 1] # "" /\ segs[i + 2] # ""}
  IN IF at = {} THEN None
     ELSE Some([owner |-> segs[Min(at) + 1], repo |-> segs[Min(at) + 2]])

\* github_url.match(/github\.com\/([^/]+)\/([^/]+)/): None, or <<owner, repo>>
GithubMatch(segs) ==
  LET at == {i \in 1..(Len(segs) - 2) :
               /\ segs[i] \in GithubHosts
               /\ segs[i + 1] # ""
               /\ segs[i + 2] # ""}
  IN IF at = {} THEN None
     ELSE Some([owner |-> segs[Min(at) + 1], repo |-> segs[Min(at) + 2]])

\* A string is the sequence of the pieces its template concatenates.
PlaywrightArgs == << <<"@playwright/mcp@latest">> >>

\* ['-y', `${repo}@latest`]
DefaultArgs(repo) == << <<"-y">>, <<repo, "@latest">> >>

\* a slip: the special case keyed on the repo alone
ServerConfigFor_RepoOnly(owner, repo) ==
  [type |-> "local", command |-> "npx",
   args |-> IF repo = "playwright-mcp" THEN PlaywrightArgs ELSE DefaultArgs(repo),
   tools |-> <<>>, env |-> None]

\* the serverConfig handleInstall generates
ServerConfigFor(owner, repo) ==
  [type |-> "local", command |-> "npx",
   args |-> IF owner = "microsoft" /\ repo = "playwright-mcp"
            THEN PlaywrightArgs ELSE DefaultArgs(repo),
   tools |-> <<>>, env |-> None]

(***************************************************************************)
(* Responses.                                                              *)
(***************************************************************************)
\* return { content: [{ type: 'text', text: JSON.stringify(payload) }] }
Return(handler, payload, fs) ==
  [kind |-> "return", handler |-> handler,
   value |-> [content |-> <<[type |-> "text", text |-> payload]>>], fs |-> fs]

\* an exception that leaves the handler (or the dispatcher)
Throw(handler, message, fs) ==
  [kind |-> "throw", handler |-> handler, value |-> [error |-> message], fs |-> fs]

NoResponse == [kind |-> "none", handler |-> "none", value |-> [error |-> ""], fs |-> <<>>]

Failure(message) == [success |-> FALSE, error |-> message]

\* fs.readFile + JSON.parse: the reason it throws, or "" when it yields a config
ReadError(f) ==
  CASE f.st = "absent" -> "ENOENT"
    [] f.st = "garbled" -> "SyntaxError"
    [] OTHER -> ""


\* what a handler leaves behind: the files, the prototype's state, the response
Outcome(s, r) ==
  [file |-> s.file, backups |-> s.backups, inherited |-> s.inherited, resp |-> r]

(***************************************************************************)
(* handleInstall.  config_name || server_name: the model's names are       *)
(* non-empty strings, so a supplied config_name is truthy.                 *)
(***************************************************************************)
\* a slip: only a missing file stands for the empty config
LoadOrDefault_AbsentOnly(f) ==
  IF f.st = "ok" THEN f.cfg
  ELSE IF f.st = "absent" THEN EmptyConfig
  ELSE [mcpServers |-> None, alwaysAllow |-> None]

\* try { JSON.parse(await fs.readFile(...)) } catch { the default config }
LoadOrDefault(f) == IF f.st = "ok" THEN f.cfg ELSE EmptyConfig

handleInstall(s, args) ==
  IF args = None
  THEN Outcome(s, Throw("handleInstall", "TypeError", <<>>))
  ELSE
    LET a == args[1]
        config == LoadOrDefault(s.file)
        m == IF a.github_url = None THEN None ELSE GithubMatch(a.github_url[1])
        name == IF IsSome(a.config_name) THEN a.config_name[1] ELSE a.server_name[1]
    IN
      IF a.github_url = None
      THEN Outcome(s, Return("handleInstall", Failure("TypeError"), <<"readFile">>))
      ELSE IF m = None
      THEN Outcome(s, Return("handleInstall", Failure("Invalid GitHub URL format"),
                             <<"readFile">>))
      ELSE IF config.mcpServers = None
      THEN Outcome(s, Return("handleInstall", Failure("TypeError"), <<"readFile">>))
      ELSE
        LET serverConfig == ServerConfigFor(m[1].owner, m[1].repo)
            servers == SetServer(config.mcpServers[1], name, serverConfig)
            written == [config EXCEPT !.mcpServers = Some(servers)]
        IN [Outcome(s, Return("handleInstall",
                              [success |-> TRUE,
                               message |-> <<a.server_name[1], name>>,
                               server_config |-> serverConfig,
                               github |-> <<m[1].owner, m[1].repo>>],
                              <<"readFile", "writeFile">>))
              EXCEPT !.file = FileOf(written, TRUE)]

NotFound(config, name) ==
  [success |-> FALSE, error |-> "not found in config", server |-> name,
   available_servers |-> IF config.mcpServers = None THEN <<>>
                         ELSE Keys(config.mcpServers[1])]

(***************************************************************************)
(* handleUninstall.                                                        *)
(***************************************************************************)
handleUninstall(s, args) ==
  IF args = None
  THEN Outcome(s, Throw("handleUninstall", "TypeError", <<>>))
  ELSE IF s.file.st # "ok"
  THEN Outcome(s, Return("handleUninstall", Failure(ReadError(s.file)), <<"readFile">>))
  ELSE
    LET name == args[1].server_name[1]
        config == s.file.cfg
    IN
      IF config.mcpServers = None \/ ~HasProperty(config.mcpServers[1], name)
      THEN Outcome(s, Return("handleUninstall", NotFound(config, name), <<"readFile">>))
      ELSE
        LET servers == config.mcpServers[1]
            \* JSON.stringify drops removed_config when it is an inherited function
            removedConfig == IF IndexOf(servers, name) # 0
                             THEN Some(GetServer(servers, name)) ELSE None
            written ==
              [mcpServers |-> Some(DeleteServer(servers, name)),
               alwaysAllow |-> IF config.alwaysAllow = None THEN None
                               ELSE Some(PruneAllow(config.alwaysAllow[1], name))]
        IN [Outcome(s, Return("handleUninstall",
                              [success |-> TRUE, message |-> name,
                               removed_config |-> removedConfig],
                              <<"readFile", "writeFile">>))
              EXCEPT !.file = FileOf(written, TRUE)]

(***************************************************************************)
(* handleListInstalled.                                                    *)
(***************************************************************************)
handleListInstalled(s, args) ==
  IF s.file.st # "ok"
  THEN Outcome(s, Return("handleListInstalled", Failure(ReadError(s.file)),
                         <<"readFile">>))
  ELSE
    LET config == s.file.cfg
        servers == IF config.mcpServers = None THEN <<>> ELSE config.mcpServers[1]
        serverList == [i \in 1..Len(servers) |->
                         [name |-> servers[i].name,
                          type |-> servers[i].cfg.type,
                          command |-> servers[i].cfg.command,
                          args |-> servers[i].cfg.args,
                          tools |-> servers[i].cfg.tools,
                          env |-> servers[i].cfg.env]]
    IN Outcome(s, Return("handleListInstalled",
                         [total_installed |-> Len(serverList),
                          servers |-> serverList,
                          alwaysAllow |-> IF config.alwaysAllow = None THEN <<>>
                                          ELSE config.alwaysAllow[1]],
                         <<"readFile">>))

\* if (new_args) ...args = new_args; if (new_tools !== undefined) ...tools = new_tools
ApplyUpdate(cfg, new_args, new_tools) ==
  [cfg EXCEPT !.args = IF IsSome(new_args) THEN new_args[1] ELSE @,
              !.tools = IF IsSome(new_tools) THEN new_tools[1] ELSE @]

(***************************************************************************)
(* handleUpdateConfig.  When server_name is not an own key but is          *)
(* inherited, config.mcpServers[server_name] is a function object shared   *)
(* by the whole process: the assignments land on it, not in the config.    *)
(***************************************************************************)
handleUpdateConfig(s, args) ==
  IF args = None
  THEN Outcome(s, Throw("handleUpdateConfig", "TypeError", <<>>))
  ELSE IF s.file.st # "ok"
  THEN Outcome(s, Return("handleUpdateConfig", Failure(ReadError(s.file)),
                         <<"readFile">>))
  ELSE
    LET a == args[1]
        name == a.server_name[1]
        config == s.file.cfg
    IN
      IF config.mcpServers = None \/ ~HasProperty(config.mcpServers[1], name)
      THEN Outcome(s, Return("handleUpdateConfig", NotFound(config, name),
                             <<"readFile">>))
      ELSE IF IndexOf(config.mcpServers[1], name) # 0
      THEN
        LET servers == config.mcpServers[1]
            oldConfig == GetServer(servers, name)
            newConfig == ApplyUpdate(oldConfig, a.new_args, a.new_tools)
            written == [config EXCEPT !.mcpServers = Some(SetServer(servers, name, newConfig))]
        IN [Outcome(s, Return("handleUpdateConfig",
                              [success |-> TRUE, message |-> name,
                               old_config |-> Some(oldConfig),
                               new_config |-> Some(newConfig)],
                              <<"readFile", "writeFile">>))
              EXCEPT !.file = FileOf(written, TRUE)]
      ELSE
        [Outcome(s, Return("handleUpdateConfig",
                           [success |-> TRUE, message |-> name,
                            old_config |-> Some(s.inherited),
                            new_config |-> None],
                           <<"readFile", "writeFile">>))
           EXCEPT !.file = FileOf(config, TRUE),
                  !.inherited = [args |-> IF IsSome(a.new_args) THEN a.new_args ELSE @.args,
                                 tools |-> IF IsSome(a.new_tools) THEN a.new_tools ELSE @.tools]]

(***************************************************************************)
(* handleBackup.  A time is [sec, ms]; a string is the sequence of its     *)
(* pieces.  The backup's path carries the time cut to whole seconds, so    *)
(* two backups in one second share a path.                                 *)
(***************************************************************************)
\* new Date().toISOString(), the date and the hour fixed
toISOString(now) ==
  <<"1970-01-01", "T", "00", ":", "00", ":", ToString(now.sec), ".", ToString(now.ms), "Z">>

\* a slip: the colons stay
ReplaceColons_Kept(str) == str

\* .replace(/:/g, '-')
ReplaceColons(str) == [i \in 1..Len(str) |-> IF str[i] = ":" THEN "-" ELSE str[i]]

\* .replace(/\..+/, ''): the first dot that something follows, and all after it
StripFraction(str) ==
  LET dots == {i \in 1..(Len(str) - 1) : str[i] = "."}
  IN IF dots = {} THEN str ELSE SubSeq(str, 1, Min(dots) - 1)

TimestampOf(now) == StripFraction(ReplaceColons(toISOString(now)))

\* USERPROFILE + `\.copilot\mcp-config.backup.${timestamp}.json`
BackupPathOf(timestamp) == <<"mcp-config.backup.">> \o timestamp \o <<".json">>

handleBackup(s, args, now) ==
  IF s.file.st = "absent"
  THEN Outcome(s, Return("handleBackup", Failure("ENOENT"), <<"readFile">>))
  ELSE
    LET timestamp == TimestampOf(now)
        backupPath == BackupPathOf(timestamp)
    IN [Outcome(s, Return("handleBackup",
                          [success |-> TRUE, backup_path |-> backupPath,
                           timestamp |-> timestamp],
                          <<"readFile", "writeFile">>))
          EXCEPT !.backups = {b \in @ : b.path # backupPath}
                               \cup {[path |-> backupPath, data |-> s.file]}]

(***************************************************************************)
(* handleGetDetails.  net.repo and net.readme are what the two fetches     *)
(* meet: "ok", "http" (a non-success status) or "network" (fetch rejects); *)
(* net.length is the length of the README fetched.                         *)
(***************************************************************************)
ReadmeCap == 5000
TruncationMarkLen == 17

ReadmePreviewLen(n) == IF n > ReadmeCap THEN ReadmeCap + TruncationMarkLen ELSE n

handleGetDetails(s, args, net) ==
  IF args = None
  THEN Outcome(s, Throw("handleGetDetails", "TypeError", <<>>))
  ELSE
    LET url == args[1].github_url
        m == IF url = None THEN None ELSE GithubMatch(url[1])
    IN
      IF url = None
      THEN Outcome(s, Return("handleGetDetails", Failure("TypeError"), <<>>))
      ELSE IF m = None
      THEN Outcome(s, Return("handleGetDetails", Failure("Invalid GitHub URL format"), <<>>))
      ELSE IF net.repo = "network"
      THEN Outcome(s, Return("handleGetDetails", Failure("FetchError"), <<>>))
      ELSE IF net.repo = "http"
      THEN Outcome(s, Return("handleGetDetails", Failure("Failed to fetch repo details"), <<>>))
      ELSE IF net.readme = "network"
      THEN Outcome(s, Return("handleGetDetails", Failure("FetchError"), <<>>))
      ELSE Outcome(s, Return("handleGetDetails",
                             [full_name |-> <<m[1].owner, m[1].repo>>,
                              readme_preview |->
                                IF net.readme = "ok"
                                THEN Some(ReadmePreviewLen(net.length)) ELSE None],
                             <<>>))

(***************************************************************************)
(* The registry document and parseServers.  A document is a sequence of    *)
(* lines; a text is a sequence of one-character strings.                   *)
(***************************************************************************)
NoDescription ==
  <<"N","o"," ","d","e","s","c","r","i","p","t","i","o","n"," ",
    "a","v","a","i","l","a","b","l","e">>

LowerPairs == {<<"A","a">>, <<"B","b">>, <<"N","n">>, <<"P","p">>}

\* String.prototype.toLowerCase, one character
LowerChar(c) ==
  IF \E p \in LowerPairs : p[1] = c
  THEN (CHOOSE p \in LowerPairs : p[1] = c)[2] ELSE c

ToLowerCase(str) == [i \in 1..Len(str) |-> LowerChar(str[i])]

\* String.prototype.includes
Includes(str, sub) ==
  \E i \in 0..(Len(str) - Len(sub)) :
    \A j \in 1..Len(sub) : str[i + j] = sub[j]

RECURSIVE TrimStart(_)
TrimStart(str) ==
  IF str # <<>> /\ Head(str) = " " THEN TrimStart(Tail(str)) ELSE str

RECURSIVE TrimEnd(_)
TrimEnd(str) ==
  IF str # <<>> /\ str[Len(str)] = " " THEN TrimEnd(SubSeq(str, 1, Len(str) - 1)) ELSE str

\* String.prototype.trim
Trim(str) == TrimEnd(TrimStart(str))

HeadingOfficial == [k |-> "h3", title |-> "official"]
HeadingCommunity == [k |-> "h3", title |-> "community"]
HeadingOther == [k |-> "h3", title |-> "other"]
HeadingResources == [k |-> "h2", title |-> "resources"]
TextLine == [k |-> "text", title |-> ""]

Bullet(marker, name, url, desc) ==
  [k |-> "bullet", title |-> "", marker |-> marker, name |-> name, url |-> url,
   desc |-> desc]

\* /^•\s+\[([^\]]+)\]\(([^)]+)\)(?:\s*-\s*(.+))?$/gm on one line
MatchesServerRegex(line) ==
  line.k = "bullet" /\ line.marker = "dot" /\ line.name # <<>> /\ line.url # <<>>

\* readme.match(/<from>([\s\S]*?)<stop>/): the lines between the first `from`
\* heading and the first line after it that is one of `stops`; None without both
SectionBetween(doc, from, stops) ==
  LET starts == {i \in 1..Len(doc) : doc[i] = from}
  IN IF starts = {} THEN None
     ELSE LET i == Min(starts)
              ends == {j \in (i + 1)..Len(doc) : doc[j] \in stops}
          IN IF ends = {} THEN None
             ELSE Some(SubSeq(doc, i + 1, Min(ends) - 1))

ServerOf(line, category) ==
  [name |-> Trim(line.name),
   url |-> line.url,
   description |-> IF line.desc = None \/ Trim(line.desc[1]) = <<>>
                   THEN NoDescription ELSE Trim(line.desc[1]),
   category |-> category]

SectionServers(section, category) ==
  IF section = None THEN <<>>
  ELSE LET text == section[1]
           matched == SelectSeq2(text, {i \in 1..Len(text) : MatchesServerRegex(text[i])})
       IN [i \in 1..Len(matched) |-> ServerOf(matched[i], category)]

parseServers(doc) ==
  LET \* /### Official Integrations([\s\S]*?)###/
      officialSection ==
        SectionBetween(doc, HeadingOfficial, {doc[j] : j \in {i \in 1..Len(doc) : doc[i].k = "h3"}})
      \* /### Community Servers([\s\S]*?)##\s+Resources/
      communitySection == SectionBetween(doc, HeadingCommunity, {HeadingResources})
  IN SectionServers(officialSection, "official")
       \o SectionServers(communitySection, "community")

\* fetchReadme: the text, or the error it throws
fetchReadme(net) ==
  IF net = "ok" THEN [ok |-> TRUE, error |-> ""]
  ELSE [ok |-> FALSE, error |-> "Error fetching GitHub README"]

Playwright == <<"p","l","a","y","w","r","i","g","h","t">>

getInstallationInfo(server) ==
  LET githubMatch == GithubMatch(server.url)
  IN IF githubMatch = None
     THEN [type |-> "unknown",
           message |-> "Check the GitHub repository for installation instructions",
           url |-> server.url]
     ELSE IF Includes(ToLowerCase(server.name), Playwright)
             /\ githubMatch[1].owner = "microsoft"
     THEN [type |-> "npm",
           command |-> <<"npx ", "@playwright/mcp@latest">>,
           config_example |-> [command |-> "npx", args |-> PlaywrightArgs]]
     ELSE [type |-> "npm",
           command |-> <<"npx -y ", githubMatch[1].repo, "@latest">>,
           github |-> <<githubMatch[1].owner, "/", githubMatch[1].repo>>,
           config_example |-> [command |-> "npx",
                               args |-> DefaultArgs(githubMatch[1].repo)]]

\* a slip: the element at index `end` is taken too
Slice_ThroughEnd(s, start, end) ==
  IF start >= 0 /\ end >= start /\ end < Len(s) THEN SubSeq(s, start + 1, end + 1)
  ELSE IF start >= 0 /\ start < Len(s) /\ end >= start THEN SubSeq(s, start + 1, Len(s))
  ELSE <<>>

\* Array.prototype.slice(start, end)
Slice(s, start, end) ==
  LET n == Len(s)
      from == IF start < 0 THEN (IF n + start < 0 THEN 0 ELSE n + start)
              ELSE (IF start > n THEN n ELSE start)
      to == IF end < 0 THEN (IF n + end < 0 THEN 0 ELSE n + end)
            ELSE (IF end > n THEN n ELSE end)
  IN IF to <= from THEN <<>> ELSE SubSeq(s, from + 1, to)

SearchDefaultLimit == 10
SearchMaxLimit == 50
ListDefaultLimit == 20
ListMaxLimit == 100

\* Math.min(limit || dflt, max)
LimitOf(limit, dflt, max) ==
  LET l == IF limit = None \/ limit[1] = 0 THEN dflt ELSE limit[1]
  IN IF l < max THEN l ELSE max

\* servers.filter(s => s.category === category), unless category is 'all'
FilterCategory(servers, category) ==
  IF category = "all" THEN servers
  ELSE SelectSeq2(servers, {i \in 1..Len(servers) : servers[i].category = category})

\* a slip: only the name is searched
Matches_NameOnly(server, query) == Includes(ToLowerCase(server.name), query)

Matches(server, query) ==
  \/ Includes(ToLowerCase(server.name), query)
  \/ Includes(ToLowerCase(server.description), query)

FilterQuery(servers, query) ==
  SelectSeq2(servers, {i \in 1..Len(servers) : Matches(servers[i], query)})

Listing(servers) ==
  [i \in 1..Len(servers) |->
     [name |-> servers[i].name, url |-> servers[i].url,
      description |-> servers[i].description, category |-> servers[i].category,
      installation |-> getInstallationInfo(servers[i])]]

(***************************************************************************)
(* handleSearch and handleList: neither has a try/catch.                   *)
(***************************************************************************)
handleSearch(s, args, net, doc) ==
  IF args = None \/ args[1].query = None
  THEN Outcome(s, Throw("handleSearch", "TypeError", <<>>))
  ELSE
    LET query == ToLowerCase(args[1].query[1])
        limit == LimitOf(args[1].limit, SearchDefaultLimit, SearchMaxLimit)
        category == IF args[1].category = None THEN "all" ELSE args[1].category[1]
        fetched == fetchReadme(net)
        servers == FilterCategory(parseServers(doc), category)
        results == Slice(FilterQuery(servers, query), 0, limit)
    IN IF ~fetched.ok
       THEN Outcome(s, Throw("handleSearch", fetched.error, <<>>))
       ELSE Outcome(s, Return("handleSearch",
                              [query |-> query,
                               total_results |-> Len(results),
                               showing |-> IF Len(results) < limit THEN Len(results) ELSE limit,
                               category_filter |-> category,
                               servers |-> Listing(results)],
                              <<>>))

\* a slip: the comparison is against the last index
HasMore_LastIndex(offset, limit, total) == offset + limit < total - 1

\* has_more: offset + limit < servers.length
HasMore(offset, limit, total) == offset + limit < total

handleList(s, args, net, doc) ==
  IF args = None
  THEN Outcome(s, Throw("handleList", "TypeError", <<>>))
  ELSE
    LET limit == LimitOf(args[1].limit, ListDefaultLimit, ListMaxLimit)
        offset == IF args[1].offset = None THEN 0 ELSE args[1].offset[1]
        category == IF args[1].category = None THEN "all" ELSE args[1].category[1]
        fetched == fetchReadme(net)
        servers == FilterCategory(parseServers(doc), category)
        paginatedServers == Slice(servers, offset, offset + limit)
    IN IF ~fetched.ok
       THEN Outcome(s, Throw("handleList", fetched.error, <<>>))
       ELSE Outcome(s, Return("handleList",
                              [total_servers |-> Len(servers),
                               showing |-> Len(paginatedServers),
                               offset |-> offset,
                               limit |-> limit,
                               category_filter |-> category,
                               has_more |-> HasMore(offset, limit, Len(servers)),
                               servers |-> Listing(paginatedServers)],
                              <<>>))

(***************************************************************************)
(* The request handler for tools/call.                                     *)
(***************************************************************************)
ToolNames ==
  {"search_github_mcp_servers", "list_all_github_mcp_servers", "install_mcp_server",
   "uninstall_mcp_server", "list_installed_servers", "update_server_config",
   "get_server_details", "backup_config"}

UnknownTool(s) == Outcome(s, Throw("none", "Unknown tool", <<>>))

\* the CallToolRequestSchema handler of the README listing
CallTool(s, name, args, env) ==
  IF name = "search_github_mcp_servers" THEN handleSearch(s, args, env.net, env.doc)
  ELSE IF name = "list_all_github_mcp_servers" THEN handleList(s, args, env.net, env.doc)
  ELSE IF name = "install_mcp_server" THEN handleInstall(s, args)
  ELSE IF name = "uninstall_mcp_server" THEN handleUninstall(s, args)
  ELSE IF name = "list_installed_servers" THEN handleListInstalled(s, args)
  ELSE IF name = "update_server_config" THEN handleUpdateConfig(s, args)
  ELSE IF name = "get_server_details" THEN handleGetDetails(s, args, env)
  ELSE IF name = "backup_config" THEN handleBackup(s, args, env.ts)
  ELSE UnknownTool(s)

\* the CallToolRequestSchema handler of index.js
CallToolIndex(s, name, args, env) ==
  IF name = "search_github_mcp_servers" THEN handleSearch(s, args, env.net, env.doc)
  ELSE IF name = "list_all_github_mcp_servers" THEN handleList(s, args, env.net, env.doc)
  ELSE IF name = "install_mcp_server" THEN handleInstall(s, args)
  ELSE UnknownTool(s)

(***************************************************************************)
(* Inputs the model draws requests from.                                   *)
(***************************************************************************)
UrlPlaywright == <<"https:", "", "github.com", "microsoft", "playwright-mcp">>
UrlFork == <<"https:", "", "github.com", "acme", "playwright-mcp">>
UrlDemo == <<"https:", "", "www.github.com", "microsoft", "demo">>
UrlNoRepo == <<"https:", "", "github.com", "acme">>
UrlOtherHost == <<"https:", "", "gitlab.com", "acme", "demo">>

ValidUrls == {UrlPlaywright, UrlFork, UrlDemo}
InvalidUrls == {UrlNoRepo, UrlOtherHost}

CustomEntry ==
  [type |-> "local", command |-> "node", args |-> << <<"index.js">> >>,
   tools |-> <<"*">>, env |-> Some("TOKEN")]

NewArgs == << <<"--headless">> >>
NewTools == <<"browser_open">>

Rule(server, tool) == [server |-> server, tool |-> tool]

SampleConfig ==
  [mcpServers |-> Some(<<[name |-> "playwright", cfg |-> ServerConfigFor("microsoft", "playwright-mcp")],
                         [name |-> "demo", cfg |-> CustomEntry]>>),
   alwaysAllow |-> Some(<<Rule("demo", "search"), Rule("playwright", "open"),
                          Rule("demo", "list")>>)]

\* a hand-edited config: no alwaysAllow key, and a rule-less server
BareConfig ==
  [mcpServers |-> Some(<<[name |-> "demo", cfg |-> CustomEntry]>>), alwaysAllow |-> None]

\* a config whose rule names a server that is not installed
DanglingConfig ==
  [mcpServers |-> Some(<<[name |-> "demo", cfg |-> CustomEntry]>>),
   alwaysAllow |-> Some(<<Rule("playwright", "open"), Rule("demo", "search")>>)]

\* {}: a JSON object with neither key
KeylessConfig == [mcpServers |-> None, alwaysAllow |-> None]

StoreFiles ==
  {FileAbsent, FileGarbled, FileOf(EmptyConfig, TRUE), FileOf(KeylessConfig, FALSE),
   FileOf(SampleConfig, FALSE), FileOf(BareConfig, TRUE), FileOf(DanglingConfig, FALSE)}

FewFiles == {FileAbsent, FileGarbled, FileOf(BareConfig, FALSE)}

NoArguments == None

InstallArgs(names, urls, configNames) ==
  {Some([server_name |-> Some(n), github_url |-> u, config_name |-> c]) :
     n \in names, u \in urls, c \in configNames}

NameArgs(names) == {Some([server_name |-> Some(n)]) : n \in names}

UpdateArgs(names, argss, toolss) ==
  {Some([server_name |-> Some(n), new_args |-> a, new_tools |-> t]) :
     n \in names, a \in argss, t \in toolss}

DetailsArgs(urls) == {Some([github_url |-> u]) : u \in urls}

SearchArgs(queries, limits, categories) ==
  {Some([query |-> q, limit |-> l, category |-> c]) :
     q \in queries, l \in limits, c \in categories}

ListArgs(limits, offsets, categories) ==
  {Some([limit |-> l, offset |-> o, category |-> c]) :
     l \in limits, o \in offsets, c \in categories}

Env(net, repo, rd, length) ==
  [net |-> net, repo |-> repo, readme |-> rd, length |-> length,
   doc |-> readme, ts |-> [sec |-> clock, ms |-> 0]]

QuietEnv == Env("ok", "ok", "ok", 0)

NetOutcomes == {"ok", "http", "network"}

\* what get_details' two fetches meet: the API's outcome, the README's, its length
DetailsOutcomes ==
  {<<"network", "ok", 0>>, <<"http", "ok", 0>>, <<"ok", "network", 0>>, <<"ok", "http", 0>>,
   <<"ok", "ok", ReadmeCap>>, <<"ok", "ok", ReadmeCap + 1>>}

\* what a request finds: the files, the prototype's state, the time
State == [file |-> file, backups |-> backups, inherited |-> inherited, clock |-> clock]

NoRequest == [name |-> "", args |-> None]

\* no handler is suspended; no client is paging
NoCalls == <<>>
NoPager == [phase |-> "idle"]

\* the server handles request.params = {name, arguments: args}
Serve(name, args, out) ==
  /\ req' = [name |-> name, args |-> args]
  /\ prev' = State
  /\ file' = out.file
  /\ backups' = out.backups
  /\ inherited' = out.inherited
  /\ resp' = out.resp
  /\ UNCHANGED <<clock, readme, calls, pager>>

(***************************************************************************)
(* The registry documents.                                                 *)
(***************************************************************************)
MaxSection == 2

OfficialLines ==
  {Bullet("dot", <<"A", "b">>, UrlDemo, Some(<<"c", " ">>)),
   Bullet("dot", <<"P", "l", "a", "y", "w", "r", "i", "g", "h", "t">>, UrlPlaywright, None)}

CommunityLines ==
  {Bullet("dot", <<"c">>, UrlFork, Some(<<"B", "c">>)),
   Bullet("dash", <<"a">>, UrlDemo, Some(<<"a">>))}

SeqsUpTo(S, n) == UNION {[1..k -> S] : k \in 0..n}

WellFormedDocs ==
  {<<HeadingOfficial>> \o o \o <<HeadingCommunity>> \o c \o <<HeadingResources>> :
     o \in SeqsUpTo(OfficialLines, MaxSection), c \in {<<l>> : l \in CommunityLines} \cup {<<>>}}

SmallDoc ==
  <<HeadingOfficial,
    Bullet("dot", <<"A", "b">>, UrlDemo, Some(<<"c", " ">>)),
    HeadingCommunity,
    Bullet("dot", <<"c">>, UrlFork, Some(<<"B", "c">>)),
    HeadingResources>>

Docs == WellFormedDocs

(***************************************************************************)
(* One action per tool call, through the README listing's dispatcher.      *)
(***************************************************************************)
SearchWith(A) ==
  \E a \in A, net \in NetOutcomes :
    Serve("search_github_mcp_servers", a, CallTool(State, "search_github_mcp_servers", a, Env(net, "ok", "ok", 0)))

ListWith(A) ==
  \E a \in A, net \in NetOutcomes :
    Serve("list_all_github_mcp_servers", a, CallTool(State, "list_all_github_mcp_servers", a, Env(net, "ok", "ok", 0)))

InstallWith(A) ==
  \E a \in A : Serve("install_mcp_server", a, CallTool(State, "install_mcp_server", a, QuietEnv))

UninstallWith(A) ==
  \E a \in A : Serve("uninstall_mcp_server", a, CallTool(State, "uninstall_mcp_server", a, QuietEnv))

ListInstalledWith(A) ==
  \E a \in A : Serve("list_installed_servers", a, CallTool(State, "list_installed_servers", a, QuietEnv))

UpdateConfigWith(A) ==
  \E a \in A : Serve("update_server_config", a, CallTool(State, "update_server_config", a, QuietEnv))

GetDetailsWith(A) ==
  \E a \in A, net \in DetailsOutcomes :
    Serve("get_server_details", a, CallTool(State, "get_server_details", a, Env("ok", net[1], net[2], net[3])))

\* the milliseconds the clock shows when a backup is taken
Millis == {0, 999}

Backup ==
  \E a \in {NoArguments}, ms \in Millis :
    Serve("backup_config", a,
          CallTool(State, "backup_config", a, [QuietEnv EXCEPT !.ts.ms = ms]))

Unknown ==
  \E a \in {NoArguments, Some([server_name |-> Some("demo")])} :
    Serve("frobnicate", a, CallTool(State, "frobnicate", a, QuietEnv))

\* a second passes
Tick ==
  /\ clock < MaxClock
  /\ clock' = clock + 1
  /\ UNCHANGED <<file, backups, inherited, readme, req, prev, resp, calls, pager>>

(***************************************************************************)
(* Spec: the README listing's server, every tool, on a small workload.     *)
(***************************************************************************)
FewInstallArgs ==
  {NoArguments} \cup InstallArgs({"demo"}, {None, Some(UrlPlaywright), Some(UrlNoRepo)}, {None})
FewNameArgs == {NoArguments} \cup NameArgs({"demo", "playwright"})
FewUpdateArgs == {NoArguments} \cup UpdateArgs({"demo"}, {None, Some(NewArgs)}, {None})
FewDetailsArgs == {NoArguments} \cup DetailsArgs({None, Some(UrlDemo), Some(UrlNoRepo)})
FewSearchArgs ==
  {NoArguments} \cup SearchArgs({None, Some(<<"B">>)}, {None}, {None, Some("official")})
FewListArgs == {NoArguments} \cup ListArgs({None, Some(1)}, {None}, {None})

Init ==
  /\ file \in FewFiles
  /\ backups = {}
  /\ clock = 0
  /\ inherited = [args |-> None, tools |-> None]
  /\ readme = SmallDoc
  /\ req = NoRequest
  /\ prev = State
  /\ resp = NoResponse
  /\ calls = NoCalls
  /\ pager = NoPager

Next ==
  \/ SearchWith(FewSearchArgs)
  \/ ListWith(FewListArgs)
  \/ InstallWith(FewInstallArgs)
  \/ UninstallWith(FewNameArgs)
  \/ ListInstalledWith({NoArguments})
  \/ UpdateConfigWith(FewUpdateArgs)
  \/ GetDetailsWith(FewDetailsArgs)
  \/ Backup
  \/ Unknown
  \/ Tick

Spec == Init /\ [][Next]_vars

(***************************************************************************)
(* SpecStore: the config store's four operations on a rich workload.       *)
(***************************************************************************)
StoreInstallArgs ==
  {NoArguments}
    \cup InstallArgs(OwnNames, {None} \cup {Some(u) : u \in ValidUrls \cup InvalidUrls},
                     {None, Some("demo")})
StoreNameArgs == {NoArguments} \cup NameArgs(ServerNames)
StoreUpdateArgs ==
  {NoArguments}
    \cup UpdateArgs({"demo"}, {None, Some(NewArgs)}, {None, Some(NewTools)})
    \cup UpdateArgs({"playwright"} \cup InheritedNames, {Some(NewArgs)}, {None})

InitStore ==
  /\ file \in StoreFiles
  /\ backups = {}
  /\ clock = 0
  /\ inherited = [args |-> None, tools |-> None]
  /\ readme = SmallDoc
  /\ req = NoRequest
  /\ prev = State
  /\ resp = NoResponse
  /\ calls = NoCalls
  /\ pager = NoPager

NextStore ==
  \/ InstallWith(StoreInstallArgs)
  \/ UninstallWith(StoreNameArgs)
  \/ ListInstalledWith({NoArguments})
  \/ UpdateConfigWith(StoreUpdateArgs)

SpecStore == InitStore /\ [][NextStore]_vars

(***************************************************************************)
(* SpecQuery: search and list over every registry document of Docs.        *)
(***************************************************************************)
Queries == {<<>>, <<"A", "B">>, <<"c">>, <<"x">>}

QuerySearchArgs ==
  {NoArguments}
    \cup SearchArgs({None} \cup {Some(q) : q \in Queries},
                    {None, Some(0), Some(1), Some(2)},
                    {None, Some("all"), Some("official"), Some("community")})

QueryListArgs ==
  {NoArguments}
    \cup ListArgs({None, Some(1), Some(2)}, {None, Some(1), Some(2)}, {None, Some("community")})

InitQuery ==
  /\ file = FileAbsent
  /\ backups = {}
  /\ clock = 0
  /\ inherited = [args |-> None, tools |-> None]
  /\ readme \in Docs
  /\ req = NoRequest
  /\ prev = State
  /\ resp = NoResponse
  /\ calls = NoCalls
  /\ pager = NoPager

NextQuery ==
  \/ SearchWith(QuerySearchArgs)
  \/ ListWith(QueryListArgs)

SpecQuery == InitQuery /\ [][NextQuery]_vars

(***************************************************************************)
(* SpecIndex: the server of index.js, whose dispatcher registers three     *)
(* tools, on the workload of Spec.                                         *)
(***************************************************************************)
IndexSearch ==
  \E a \in FewSearchArgs, net \in NetOutcomes :
    Serve("search_github_mcp_servers", a, CallToolIndex(State, "search_github_mcp_servers", a, Env(net, "ok", "ok", 0)))

IndexList ==
  \E a \in FewListArgs, net \in NetOutcomes :
    Serve("list_all_github_mcp_servers", a, CallToolIndex(State, "list_all_github_mcp_servers", a, Env(net, "ok", "ok", 0)))

IndexInstall ==
  \E a \in InstallArgs(OwnNames, {Some(u) : u \in ValidUrls \cup InvalidUrls}, {None}) :
    Serve("install_mcp_server", a, CallToolIndex(State, "install_mcp_server", a, QuietEnv))

\* a call that names one of the README listing's other five tools
IndexOther ==
  \E name \in ToolNames \ {"search_github_mcp_servers", "list_all_github_mcp_servers",
                           "install_mcp_server"},
     a \in FewNameArgs :
    Serve(name, a, CallToolIndex(State, name, a, QuietEnv))

IndexUnknown ==
  \E a \in {NoArguments} : Serve("frobnicate", a, CallToolIndex(State, "frobnicate", a, QuietEnv))

NextIndex ==
  \/ IndexSearch
  \/ IndexList
  \/ IndexInstall
  \/ IndexOther
  \/ IndexUnknown

SpecIndex == Init /\ [][NextIndex]_vars

(***************************************************************************)
(* SpecLong: search and list over registry documents longer than the       *)
(* default and the maximum limits.                                         *)
(***************************************************************************)
LongLines ==
  <<Bullet("dot", <<"A", "b">>, UrlDemo, Some(<<"c", " ">>)),
    Bullet("dot", <<"P", "l", "a", "y", "w", "r", "i", "g", "h", "t">>, UrlPlaywright, None),
    Bullet("dot", <<"c">>, UrlFork, Some(<<"B", "c">>))>>

\* n official entries, then one community entry
LongDoc(n) ==
  <<HeadingOfficial>> \o [i \in 1..n |-> LongLines[(i % Len(LongLines)) + 1]]
    \o <<HeadingCommunity, Bullet("dot", <<"a">>, UrlDemo, Some(<<"a">>)), HeadingResources>>

\* lengths around the defaults and the maxima, and the 25 and 50 of the
\* pagination example
LongSizes ==
  {SearchDefaultLimit + 1, ListDefaultLimit + 5, SearchMaxLimit, SearchMaxLimit + 2,
   ListMaxLimit + 2}

LongDocs == {LongDoc(n) : n \in LongSizes}

LongSearchArgs ==
  SearchArgs({Some(<<>>), Some(<<"c">>)},
             {None, Some(0), Some(-1), Some(1), Some(SearchMaxLimit + 1)},
             {None})

LongListArgs ==
  ListArgs({None, Some(0), Some(-1), Some(ListDefaultLimit), Some(ListMaxLimit + 1)},
           {None, Some(1), Some(ListDefaultLimit)},
           {None, Some("official")})

InitLong ==
  /\ file = FileAbsent
  /\ backups = {}
  /\ clock = 0
  /\ inherited = [args |-> None, tools |-> None]
  /\ readme \in LongDocs
  /\ req = NoRequest
  /\ prev = State
  /\ resp = NoResponse
  /\ calls = NoCalls
  /\ pager = NoPager

NextLong ==
  \/ SearchWith(LongSearchArgs)
  \/ ListWith(LongListArgs)

SpecLong == InitLong /\ [][NextLong]_vars

(***************************************************************************)
(* SpecParse: list and search over registry documents in which either      *)
(* section heading, the closing Resources heading, or both may be missing, *)
(* and whose sections hold lines that are no server entries.               *)
(***************************************************************************)
ParseLines ==
  {Bullet("dot", <<" ", "A", "b">>, UrlDemo, Some(<<"c", " ">>)),
   Bullet("dot", <<"A", "b">>, UrlPlaywright, None),
   Bullet("dash", <<"a">>, UrlDemo, Some(<<"a">>)),
   TextLine}

CommunityParseLines ==
  {Bullet("dot", <<"A", "b">>, UrlFork, None),
   Bullet("dot", <<"c">>, UrlFork, Some(<<"B", "c">>))}

ParseDocs ==
  {o \o x \o c \o r :
     o \in {<<>>} \cup {<<HeadingOfficial>> \o l : l \in SeqsUpTo(ParseLines, MaxSection)},
     x \in {<<>>, <<HeadingOther>>},
     c \in {<<>>} \cup {<<HeadingCommunity>> \o l : l \in SeqsUpTo(CommunityParseLines, 1)},
     r \in {<<>>, <<HeadingResources>>}}

ParseListArgs == ListArgs({None}, {None}, {None, Some("official"), Some("community")})

ParseSearchArgs == SearchArgs({Some(<<>>)}, {None}, {None})

InitParse ==
  /\ file = FileAbsent
  /\ backups = {}
  /\ clock = 0
  /\ inherited = [args |-> None, tools |-> None]
  /\ readme \in ParseDocs
  /\ req = NoRequest
  /\ prev = State
  /\ resp = NoResponse
  /\ calls = NoCalls
  /\ pager = NoPager

NextParse ==
  \/ SearchWith(ParseSearchArgs)
  \/ ListWith(ParseListArgs)

SpecParse == InitParse /\ [][NextParse]_vars

(***************************************************************************)
(* SpecBackup: backups taken while the clock advances and the config file  *)
(* changes between them.                                                   *)
(***************************************************************************)
BackupInstallArgs == InstallArgs({"playwright"}, {Some(UrlPlaywright)}, {None})

BackupNameArgs == NameArgs({"demo"})

NextBackup ==
  \/ Backup
  \/ Tick
  \/ InstallWith(BackupInstallArgs)
  \/ UninstallWith(BackupNameArgs)

SpecBackup == InitStore /\ [][NextBackup]_vars

(***************************************************************************)
(* SpecRace: the config store's handlers step by step.  A handler is an    *)
(* async function: it runs until it awaits (the import of fs/promises and  *)
(* fs.readFile, then fs.writeFile) and is resumed when the awaited         *)
(* operation settles.  The request handler is called once per incoming     *)
(* request, and nothing in the server makes a request wait for the         *)
(* handler of an earlier one.                                              *)
(***************************************************************************)
MaxCalls == 2

RaceFiles == {FileAbsent, FileOf(EmptyConfig, TRUE), FileOf(SampleConfig, FALSE)}

RaceRequests ==
  {[name |-> "install_mcp_server", args |-> a] :
     a \in InstallArgs({"playwright"}, {Some(UrlPlaywright), Some(UrlNoRepo)}, {None})
             \cup InstallArgs({"demo"}, {Some(UrlFork)}, {None})}
    \cup {[name |-> "uninstall_mcp_server", args |-> a] : a \in NameArgs({"demo"})}
    \cup {[name |-> "update_server_config", args |-> a] :
            a \in UpdateArgs({"demo"}, {Some(NewArgs)}, {None})}

\* the number of the next read or write of the file
Stamp ==
  LET used == {0} \cup {calls[i].readAt : i \in 1..Len(calls)}
                  \cup {calls[i].wroteAt : i \in 1..Len(calls)}
  IN 1 + CHOOSE m \in used : \A n \in used : n <= m

\* a slip: the write is dropped when the file is there already
Written_UnlessPresent(current, out) == IF current.st = "ok" THEN current ELSE out.file

\* fs.writeFile(configPath, JSON.stringify(config, null, 2)): the file becomes
\* the handler's config, whatever it holds now
Written(current, out) == out.file

\* a request arrives; its handler runs to its first await
BeginCall ==
  /\ Len(calls) < MaxCalls
  /\ \E r \in RaceRequests :
       calls' = Append(calls, [name |-> r.name, args |-> r.args, pc |-> "reading",
                               seen |-> None, out |-> None, resp |-> NoResponse,
                               readAt |-> 0, wroteAt |-> 0])
  /\ UNCHANGED <<file, backups, clock, inherited, readme, req, prev, resp, pager>>

\* readFile settles: the handler parses what it read, changes its config
\* and starts the write, or returns without one
ReadFile ==
  \E i \in 1..Len(calls) :
    /\ calls[i].pc = "reading"
    /\ LET out == CallTool(State, calls[i].name, calls[i].args, QuietEnv)
       IN calls' =
            [calls EXCEPT ![i] =
               IF "writeFile" \in {out.resp.fs[k] : k \in 1..Len(out.resp.fs)}
               THEN [@ EXCEPT !.pc = "writing", !.seen = Some(file), !.out = Some(out),
                              !.readAt = Stamp]
               ELSE [@ EXCEPT !.pc = "done", !.seen = Some(file), !.resp = out.resp,
                              !.readAt = Stamp]]
    /\ UNCHANGED <<file, backups, clock, inherited, readme, req, prev, resp, pager>>

\* writeFile settles: the handler returns its response
WriteFile ==
  \E i \in 1..Len(calls) :
    /\ calls[i].pc = "writing"
    /\ file' = Written(file, calls[i].out[1])
    /\ calls' = [calls EXCEPT ![i] = [@ EXCEPT !.pc = "done", !.resp = calls[i].out[1].resp,
                                                !.wroteAt = Stamp]]
    /\ UNCHANGED <<backups, clock, inherited, readme, req, prev, resp, pager>>

InitRace ==
  /\ file \in RaceFiles
  /\ backups = {}
  /\ clock = 0
  /\ inherited = [args |-> None, tools |-> None]
  /\ readme = SmallDoc
  /\ req = NoRequest
  /\ prev = State
  /\ resp = NoResponse
  /\ calls = NoCalls
  /\ pager = NoPager

NextRace ==
  \/ BeginCall
  \/ ReadFile
  \/ WriteFile

SpecRace == InitRace /\ [][NextRace]_vars

(***************************************************************************)
(* SpecPager: a client pages through list_all_github_mcp_servers with a    *)
(* fixed limit and category, asking for offsets 0, L, 2L, ... until a      *)
(* response reports has_more = false.  Every fetch of the registry         *)
(* document succeeds and yields the same document.                         *)
(***************************************************************************)
PagerLimits == {1, 5, ListDefaultLimit, ListMaxLimit}

PagerCategories == {None, Some("official"), Some("community")}

PagerDocs == LongDocs \cup {SmallDoc}

\* the client asks for the next page and keeps what it gets
PageCall ==
  /\ pager.phase = "paging"
  /\ LET a == Some([limit |-> Some(pager.limit), offset |-> Some(pager.offset),
                    category |-> pager.category])
         out == CallTool(State, "list_all_github_mcp_servers", a, QuietEnv)
         page == out.resp.value.content[1].text
     IN /\ req' = [name |-> "list_all_github_mcp_servers", args |-> a]
        /\ prev' = State
        /\ resp' = out.resp
        /\ pager' = [pager EXCEPT !.got = @ \o page.servers,
                                  !.pages = @ + 1,
                                  !.offset = @ + pager.limit,
                                  !.phase = IF page.has_more THEN "paging" ELSE "done"]
  /\ UNCHANGED <<file, backups, clock, inherited, readme, calls>>

InitPager ==
  /\ file = FileAbsent
  /\ backups = {}
  /\ clock = 0
  /\ inherited = [args |-> None, tools |-> None]
  /\ readme \in PagerDocs
  /\ req = NoRequest
  /\ prev = State
  /\ resp = NoResponse
  /\ calls = NoCalls
  /\ pager \in {[phase |-> "paging", limit |-> l, category |-> c, offset |-> 0,
                 got |-> <<>>, pages |-> 0] : l \in PagerLimits, c \in PagerCategories}

NextPager == PageCall

\* ENABLED <<PageCall>>_vars: the call is total and every call counts a page
PageCallEnabled == pager.phase = "paging"

\* WF_vars(PageCall) with its ENABLED written out: the client goes on asking
\* as long as it is told there is more
PageCallFair == []<>(~PageCallEnabled) \/ []<><<PageCall>>_vars

SpecPager == InitPager /\ [][NextPager]_vars /\ PageCallFair

(***************************************************************************)
(* SpecHint: a client lists the registry and installs entries it was       *)
(* shown, passing each entry's own name and URL to install.                *)
(***************************************************************************)
NamePlaywright == <<"P","l","a","y","w","r","i","g","h","t">>
NameDemo == <<"d","e","m","o">>
NameBrowser == <<"B","r","o","w","s","e","r">>

\* the string a name's characters spell, as install takes it for server_name
NameKeys ==
  {[chars |-> NamePlaywright, key |-> "Playwright"],
   [chars |-> NameDemo, key |-> "demo"],
   [chars |-> NameBrowser, key |-> "Browser"]}

KeyOf(chars) == (CHOOSE p \in NameKeys : p.chars = chars).key

HintNames == {p.chars : p \in NameKeys}

HintUrls == {UrlPlaywright, UrlFork, UrlDemo, UrlOtherHost}

HintLines ==
  {Bullet("dot", n, u, Some(<<"c">>)) : n \in HintNames, u \in HintUrls}

HintDocs ==
  {<<HeadingOfficial, a, HeadingCommunity, b, HeadingResources>> :
     a \in HintLines, b \in HintLines}

HintFiles == {FileAbsent, FileOf(SampleConfig, FALSE)}

HintListArgs == ListArgs({None}, {None}, {None, Some("official")})

HintSearchArgs == SearchArgs({Some(<<"p","l","a","y">>)}, {None}, {None})

\* install called with a listed entry's name and URL
InstallListed ==
  \E e \in {parseServers(readme)[i] : i \in 1..Len(parseServers(readme))} :
    \E a \in {Some([server_name |-> Some(KeyOf(e.name)), github_url |-> Some(e.url),
                    config_name |-> None])} :
      Serve("install_mcp_server", a, CallTool(State, "install_mcp_server", a, QuietEnv))

InitHint ==
  /\ file \in HintFiles
  /\ backups = {}
  /\ clock = 0
  /\ inherited = [args |-> None, tools |-> None]
  /\ readme \in HintDocs
  /\ req = NoRequest
  /\ prev = State
  /\ resp = NoResponse
  /\ calls = NoCalls
  /\ pager = NoPager

NextHint ==
  \/ ListWith(HintListArgs)
  \/ SearchWith(HintSearchArgs)
  \/ InstallListed

SpecHint == InitHint /\ [][NextHint]_vars

(***************************************************************************)
(* Vocabulary of the properties.                                           *)
(***************************************************************************)
Range(s) == {s[i] : i \in 1..Len(s)}

Payload(r) == r.value.content[1].text

Returned(r) == r.kind = "return"

Succeeded(r) ==
  Returned(r) /\ "success" \in DOMAIN Payload(r) /\ Payload(r).success

\* a normal response whose payload is {success: false, error: <a message>}
ReportedFailure(r) ==
  /\ Returned(r)
  /\ {"success", "error"} \subseteq DOMAIN Payload(r)
  /\ ~Payload(r).success
  /\ Payload(r).error # ""

ServersOf(f) ==
  IF f.st = "ok" /\ f.cfg.mcpServers # None THEN f.cfg.mcpServers[1] ELSE <<>>

RulesOf(f) ==
  IF f.st = "ok" /\ f.cfg.alwaysAllow # None THEN f.cfg.alwaysAllow[1] ELSE <<>>

EntrySet(f) == Range(ServersOf(f))

NamesOf(f) == {e.name : e \in EntrySet(f)}

OthersThan(f, name) == {e \in EntrySet(f) : e.name # name}

Wrote(r) == "writeFile" \in Range(r.fs)

Called(name) == req.name = name /\ req.args # None

\* the name install stores the server under
InstallName(a) == IF a.config_name # None THEN a.config_name[1] ELSE a.server_name[1]

\* the args the README and the spec give for each URL of the workload
ExpectedArgs(url) ==
  IF url = UrlPlaywright THEN << <<"@playwright/mcp@latest">> >>
  ELSE IF url = UrlFork THEN << <<"-y">>, <<"playwright-mcp", "@latest">> >>
  ELSE << <<"-y">>, <<"demo", "@latest">> >>

ExpectedEntry(url) ==
  [type |-> "local", command |-> "npx", args |-> ExpectedArgs(url), tools |-> <<>>,
   env |-> None]

InstalledOk == Called("install_mcp_server") /\ Succeeded(resp)

(***************************************************************************)
(* C1.  A successful install leaves mcpServers[name], name = config_name   *)
(* if given else server_name, equal to {type: 'local', command: 'npx',     *)
(* args, tools: []} with args ['@playwright/mcp@latest'] for               *)
(* microsoft/playwright-mcp and ['-y', '<repo>@latest'] otherwise; an      *)
(* entry already under that name is overwritten, names stay unique, and    *)
(* every other server entry and every alwaysAllow rule is unchanged.       *)
(***************************************************************************)
C1_InstallWritesEntry ==
  InstalledOk =>
    LET a == req.args[1]
        name == InstallName(a)
    IN /\ file.st = "ok"
       /\ {e \in EntrySet(file) : e.name = name}
            = {[name |-> name, cfg |-> ExpectedEntry(a.github_url[1])]}
       /\ Cardinality(NamesOf(file)) = Len(ServersOf(file))
       /\ OthersThan(file, name) = OthersThan(prev.file, name)
       /\ RulesOf(file) = RulesOf(prev.file)

\* install overwrote demo's hand-written entry, beside another server and rules
C1_Witness ==
  /\ InstalledOk
  /\ req.args[1].server_name = Some("playwright")
  /\ req.args[1].config_name = Some("demo")
  /\ req.args[1].github_url = Some(UrlFork)
  /\ [name |-> "demo", cfg |-> CustomEntry] \in EntrySet(prev.file)
  /\ "playwright" \in NamesOf(file)
  /\ Len(RulesOf(file)) = 3

UninstalledOk == Called("uninstall_mcp_server") /\ Succeeded(resp)

\* every alwaysAllow rule names a server present in mcpServers
NoDanglingRule(f) == \A r \in Range(RulesOf(f)) : r.server \in NamesOf(f)

RulesNotFor(f, name) ==
  LET Keep(r) == r.server # name IN SelectSeq(RulesOf(f), Keep)

(***************************************************************************)
(* C2.  A call of install, uninstall or update_config that finds every     *)
(* alwaysAllow rule naming a present server leaves it so; a successful     *)
(* uninstall(name) removes mcpServers[name] and every rule whose server is *)
(* name and leaves all other servers and rules unchanged, in their order.  *)
(***************************************************************************)
C2_UninstallPrunesRules ==
  /\ NoDanglingRule(prev.file) => NoDanglingRule(file)
  /\ UninstalledOk =>
       LET name == req.args[1].server_name[1]
       IN /\ name \notin NamesOf(file)
          /\ \A r \in Range(RulesOf(file)) : r.server # name
          /\ EntrySet(file) = OthersThan(prev.file, name)
          /\ RulesOf(file) = RulesNotFor(prev.file, name)

\* uninstall took demo and its two rules out of the sample config
C2_Witness ==
  /\ UninstalledOk
  /\ req.args[1].server_name = Some("demo")
  /\ prev.file = FileOf(SampleConfig, FALSE)
  /\ NamesOf(file) = {"playwright"}
  /\ RulesOf(file) = <<Rule("playwright", "open")>>

\* the step is an uninstall of the name the step before it installed
UninstallAfterInstall ==
  /\ InstalledOk
  /\ req'.name = "uninstall_mcp_server"
  /\ req'.args # None
  /\ Succeeded(resp')
  /\ req'.args[1].server_name[1] = InstallName(req.args[1])

BackToPreInstall ==
  /\ EntrySet(file') = EntrySet(prev.file)
  /\ \A r \in Range(RulesOf(file')) : r.server # InstallName(req.args[1])

(***************************************************************************)
(* C3 as stated.  For every config and every name, install of the name     *)
(* followed by uninstall of the same name returns the config to its        *)
(* pre-install set of server entries and leaves no rule for the name.      *)
(***************************************************************************)
C3_AnyName == [][UninstallAfterInstall => BackToPreInstall]_vars

(***************************************************************************)
(* C3 amended.  For every config and every name that is not already a      *)
(* server of the config, install of the name followed by uninstall of the  *)
(* same name returns the config to its pre-install set of server entries   *)
(* and leaves no rule for the name.                                        *)
(***************************************************************************)
C3_FreshName ==
  [][(UninstallAfterInstall /\ InstallName(req.args[1]) \notin NamesOf(prev.file))
       => BackToPreInstall]_vars

\* playwright was installed into the bare config and uninstalled again
C3_Witness ==
  /\ UninstalledOk
  /\ req.args[1].server_name = Some("playwright")
  /\ Payload(resp).removed_config = Some(ExpectedEntry(UrlFork))
  /\ file = FileOf(BareConfig, TRUE)

NotFoundReported ==
  /\ Returned(resp)
  /\ {"success", "error", "available_servers"} \subseteq DOMAIN Payload(resp)
  /\ ~Payload(resp).success
  /\ Payload(resp).error = "not found in config"
  /\ Range(Payload(resp).available_servers) = NamesOf(file)
  /\ Len(Payload(resp).available_servers) = Cardinality(NamesOf(file))
  /\ ~Wrote(resp)
  /\ file = prev.file

(***************************************************************************)
(* C4.  uninstall or update_config of a name that is not a key of          *)
(* mcpServers returns success=false, a not-found error and                 *)
(* available_servers equal to exactly the names in the config, and does    *)
(* not write the config file.                                              *)
(***************************************************************************)
C4_NotFound ==
  ((Called("uninstall_mcp_server") \/ Called("update_server_config"))
     /\ prev.file.st = "ok"
     /\ req.args[1].server_name[1] \notin NamesOf(prev.file))
    => NotFoundReported

\* the part of C4 the code keeps: names no plain object inherits
C4_NotFoundUninherited ==
  ((Called("uninstall_mcp_server") \/ Called("update_server_config"))
     /\ prev.file.st = "ok"
     /\ req.args[1].server_name[1] \notin NamesOf(prev.file)
     /\ req.args[1].server_name[1] \notin InheritedNames)
    => NotFoundReported

UpdatedOk == Called("update_server_config") /\ Succeeded(resp)

EntryOf(f, name) == (CHOOSE e \in EntrySet(f) : e.name = name).cfg

UpdateFrame ==
  LET a == req.args[1]
      name == a.server_name[1]
  IN /\ name \in NamesOf(prev.file)
     /\ name \in NamesOf(file)
     /\ LET old == EntryOf(prev.file, name)
            new == EntryOf(file, name)
        IN /\ new.args = IF a.new_args # None THEN a.new_args[1] ELSE old.args
           /\ new.tools = IF a.new_tools # None THEN a.new_tools[1] ELSE old.tools
           /\ new.type = old.type /\ new.command = old.command /\ new.env = old.env
           /\ {"old_config", "new_config"} \subseteq DOMAIN Payload(resp)
           /\ Payload(resp).old_config = Some(old)
           /\ Payload(resp).new_config = Some(new)
     /\ OthersThan(file, name) = OthersThan(prev.file, name)
     /\ Keys(ServersOf(file)) = Keys(ServersOf(prev.file))
     /\ file.cfg.alwaysAllow = prev.file.cfg.alwaysAllow
     /\ (a.new_args = None /\ a.new_tools = None)
          => /\ file.cfg = prev.file.cfg
             /\ prev.file.pretty => file = prev.file

(***************************************************************************)
(* C5.  A successful update_config(name, new_args?, new_tools?) replaces   *)
(* the named server's args only when new_args is supplied and its tools    *)
(* only when new_tools is supplied, leaves that server's other fields, all *)
(* other servers and all rules unchanged, and returns the entry as it was  *)
(* before (old_config) and after (new_config); with neither supplied the   *)
(* rewritten file holds the config that was read, and repeating the call   *)
(* changes nothing.                                                        *)
(***************************************************************************)
C5_UpdateFrame == UpdatedOk => UpdateFrame

\* the part of C5 the code keeps: the name is a server of the config
C5_UpdateFrameOfServer ==
  (UpdatedOk /\ req.args[1].server_name[1] \in NamesOf(prev.file)) => UpdateFrame

(***************************************************************************)
(* C7.  install with a github_url from which no owner/repo segments can    *)
(* be extracted returns success=false with 'Invalid GitHub URL format',    *)
(* raises nothing, and leaves the config file as it was: not created if    *)
(* absent, not rewritten if present.                                       *)
(***************************************************************************)
C7_InvalidUrlReported ==
  (Called("install_mcp_server")
     /\ req.args[1].github_url # None
     /\ req.args[1].github_url[1] \in InvalidUrls)
    => /\ ReportedFailure(resp)
       /\ Payload(resp).error = "Invalid GitHub URL format"
       /\ ~Wrote(resp)
       /\ file = prev.file

\* a URL on another host, with no config file: none is created
C7_Witness ==
  /\ Called("install_mcp_server")
  /\ req.args[1].github_url = Some(UrlOtherHost)
  /\ ReportedFailure(resp)
  /\ prev.file = FileAbsent
  /\ file = FileAbsent

(***************************************************************************)
(* C8.  When the config file does not exist, install treats it as an empty *)
(* config and creates the file holding exactly the newly installed server  *)
(* and an empty alwaysAllow list, whereas uninstall, update_config and     *)
(* list_installed each return success=false with the file error and create *)
(* no file.                                                                *)
(***************************************************************************)
C8_AbsentFile ==
  prev.file = FileAbsent =>
    /\ (Called("install_mcp_server")
          /\ req.args[1].github_url # None
          /\ req.args[1].github_url[1] \in ValidUrls)
         => /\ Succeeded(resp)
            /\ file = FileOf([mcpServers |->
                                Some(<<[name |-> InstallName(req.args[1]),
                                        cfg |-> ExpectedEntry(req.args[1].github_url[1])]>>),
                              alwaysAllow |-> Some(<<>>)], TRUE)
    /\ (Called("uninstall_mcp_server") \/ Called("update_server_config")
          \/ req.name = "list_installed_servers")
         => /\ ReportedFailure(resp)
            /\ Payload(resp).error = "ENOENT"
            /\ ~Wrote(resp)
            /\ file = FileAbsent

\* the first install created the file
C8_Witness ==
  /\ InstalledOk
  /\ prev.file = FileAbsent
  /\ file.st = "ok"
  /\ NamesOf(file) = {"playwright"}

(***************************************************************************)
(* C6.  Every public operation converts any internal failure (registry     *)
(* fetch failure or non-success HTTP status, file error, malformed input)  *)
(* into a normal response whose payload has success=false and an error     *)
(* message; the only call that ends in a propagated error is one with an   *)
(* unknown operation name.                                                 *)
(***************************************************************************)
C6_OnlyUnknownToolPropagates ==
  req.args # None =>
    /\ resp.kind = "throw" => req.name \notin ToolNames
    /\ (Returned(resp) /\ "success" \in DOMAIN Payload(resp) /\ ~Payload(resp).success)
         => ("error" \in DOMAIN Payload(resp) /\ Payload(resp).error # "")

\* the part of C6 the code keeps: the handlers that are wrapped in try/catch,
\* called with an arguments object
C6_WrappedHandlersReport ==
  (req.args # None
     /\ req.name \in ToolNames \ {"search_github_mcp_servers", "list_all_github_mcp_servers"})
    => Returned(resp)

HandlerOf(name) ==
  CASE name = "search_github_mcp_servers" -> "handleSearch"
    [] name = "list_all_github_mcp_servers" -> "handleList"
    [] name = "install_mcp_server" -> "handleInstall"
    [] name = "uninstall_mcp_server" -> "handleUninstall"
    [] name = "list_installed_servers" -> "handleListInstalled"
    [] name = "update_server_config" -> "handleUpdateConfig"
    [] name = "get_server_details" -> "handleGetDetails"
    [] name = "backup_config" -> "handleBackup"
    [] OTHER -> "none"

(***************************************************************************)
(* C9.  A call whose operation name is not a registered tool name raises   *)
(* an 'Unknown tool' error, runs no handler and changes no file; a call    *)
(* whose name is one of the eight operations runs exactly that operation's *)
(* handler, and what the handler returns is                                *)
(* {content: [{type: 'text', text: <payload>}]}.                           *)
(***************************************************************************)
C9_Dispatch ==
  req.name # "" =>
    IF req.name \in ToolNames
    THEN /\ resp.handler = HandlerOf(req.name)
         /\ Returned(resp) =>
              /\ DOMAIN resp.value = {"content"}
              /\ Len(resp.value.content) = 1
              /\ resp.value.content[1].type = "text"
    ELSE /\ resp.kind = "throw"
         /\ resp.value.error = "Unknown tool"
         /\ resp.handler = "none"
         /\ resp.fs = <<>>
         /\ file = prev.file
         /\ backups = prev.backups

\* the entries search is to pick from: those passing the category filter and
\* containing the query in name or description, whatever the letters' case
Eligible(entries, q, category) ==
  {i \in 1..Len(entries) :
     /\ category = "all" \/ entries[i].category = category
     /\ \/ Includes(ToLowerCase(entries[i].name), ToLowerCase(q))
        \/ Includes(ToLowerCase(entries[i].description), ToLowerCase(q))}

RankIn(I, i) == Cardinality({j \in I : j <= i})

SearchedOk ==
  /\ Called("search_github_mcp_servers")
  /\ req.args[1].query # None
  /\ req.args[1].limit = None \/ req.args[1].limit[1] >= 1
  /\ Returned(resp)

ListedOk == Called("list_all_github_mcp_servers") /\ Returned(resp)

SearchedAny ==
  Called("search_github_mcp_servers") /\ req.args[1].query # None /\ Returned(resp)

\* the smaller of two numbers
Least(a, b) == IF a < b THEN a ELSE b

\* the category-filtered entries, as positions in the parsed list
Filtered(entries, category) == Eligible(entries, <<>>, category)

CategoryOf(a) == IF a.category = None THEN "all" ELSE a.category[1]

LimitsHonoured ==
  /\ SearchedAny =>
       LET a == req.args[1]
           matching == Cardinality(Eligible(parseServers(readme), a.query[1], CategoryOf(a)))
           got == Len(Payload(resp).servers)
       IN /\ got <= SearchMaxLimit
          /\ a.limit = None => got = Least(SearchDefaultLimit, matching)
          /\ Payload(resp).showing = got
  /\ ListedOk =>
       LET a == req.args[1]
           offset == IF a.offset = None THEN 0 ELSE a.offset[1]
           total == Cardinality(Filtered(parseServers(readme), CategoryOf(a)))
           got == Len(Payload(resp).servers)
       IN /\ got <= ListMaxLimit
          /\ (a.limit = None /\ offset <= total) => got = Least(ListDefaultLimit, total - offset)
          /\ Payload(resp).showing = got

(***************************************************************************)
(* C11.  For every supplied limit value (absent, zero, negative, or above  *)
(* the maximum), search uses limit 10 when absent and never returns more   *)
(* than 50 entries, and list uses limit 20 when absent and never returns   *)
(* more than 100 entries; the reported 'showing' count equals the number   *)
(* of entries returned.                                                    *)
(***************************************************************************)
C11_LimitsHonoured == LimitsHonoured

\* the part of C11 the code keeps: limits that are absent, zero or positive
C11_LimitsFromZero ==
  (req.args # None /\ (req.args[1].limit = None \/ req.args[1].limit[1] >= 0))
    => LimitsHonoured

\* C11, the maxima alone: no response holds more than 50 (search) or 100
\* (list) entries
C11_AtMostMax ==
  /\ SearchedAny => Len(Payload(resp).servers) <= SearchMaxLimit
  /\ ListedOk => Len(Payload(resp).servers) <= ListMaxLimit

\* a list call whose offset is absent or not negative and whose limit is
\* absent or at least 1
PagedOk ==
  /\ ListedOk
  /\ req.args[1].offset = None \/ req.args[1].offset[1] >= 0
  /\ req.args[1].limit = None \/ req.args[1].limit[1] >= 1

SameEntry(g, e) ==
  /\ g.name = e.name
  /\ g.url = e.url
  /\ g.description = e.description
  /\ g.category = e.category

C12_LastPage ==
  /\ PagedOk
  /\ req.args[1].offset = Some(20)
  /\ Payload(resp).total_servers = 25
  /\ Len(Payload(resp).servers) = 5
  /\ ~Payload(resp).has_more

\* a list call that returns every parsed entry: no category filter, and
\* the documents are shorter than the default limit
ListedAll ==
  /\ ListedOk
  /\ req.args[1].limit = None /\ req.args[1].offset = None /\ req.args[1].category = None

IsHeading(line) == line.k \in {"h2", "h3"}

HasHeading(doc, heading) == \E i \in 1..Len(doc) : doc[i] = heading

\* the lines of a section: those after its heading and before the next line
\* in `stops`, or the end of the document
SectionLines(doc, heading, stops) ==
  IF ~HasHeading(doc, heading) THEN {}
  ELSE LET h == Min({i \in 1..Len(doc) : doc[i] = heading})
       IN {i \in (h + 1)..Len(doc) : \A j \in (h + 1)..i : doc[j] \notin stops}

Headings(doc) == {doc[i] : i \in {j \in 1..Len(doc) : IsHeading(doc[j])}}

\* official: up to the next heading; community: up to the Resources heading
OfficialLinesOf(doc) == SectionLines(doc, HeadingOfficial, Headings(doc))
CommunityLinesOf(doc) == SectionLines(doc, HeadingCommunity, {HeadingResources})

\* a bullet line in the registry's format: the bullet glyph, [name](url)
IsServerLine(line) == line.k = "bullet" /\ line.marker = "dot"

ServerLines(doc, S) == {i \in S : IsServerLine(doc[i])}

\* the entries got[base+1..] are the server lines S of doc, in order
EntriesAre(got, base, doc, S, category) ==
  \A i \in S :
    /\ base + RankIn(S, i) <= Len(got)
    /\ LET g == got[base + RankIn(S, i)]
       IN /\ g.name = Trim(doc[i].name)
          /\ g.url = doc[i].url
          /\ g.category = category
          /\ g.description =
               IF doc[i].desc = None THEN NoDescription ELSE Trim(doc[i].desc[1])

BothSectionsParsed ==
  LET O == ServerLines(readme, OfficialLinesOf(readme))
      C == ServerLines(readme, CommunityLinesOf(readme))
      got == Payload(resp).servers
  IN /\ Len(got) = Cardinality(O) + Cardinality(C)
     /\ EntriesAre(got, 0, readme, O, "official")
     /\ EntriesAre(got, Cardinality(O), readme, C, "community")

(***************************************************************************)
(* C13.  Parsing a document that has an official section with N matching   *)
(* bullet lines and a community section with M matching bullet lines       *)
(* yields exactly N+M entries: the N official entries in document order    *)
(* first, then the M community entries in document order, each tagged with *)
(* the category of its section; duplicate names are all preserved.         *)
(***************************************************************************)
C13_BothSections ==
  (ListedAll /\ HasHeading(readme, HeadingOfficial) /\ HasHeading(readme, HeadingCommunity))
    => BothSectionsParsed

\* the part of C13 the code keeps: the community section is closed by the
\* Resources heading
C13_ClosedSections ==
  (ListedAll /\ HasHeading(readme, HeadingOfficial) /\ HasHeading(readme, HeadingCommunity)
     /\ HasHeading(readme, HeadingResources))
    => BothSectionsParsed

\* two official entries of one name and a community entry, all returned
C13_Duplicates ==
  /\ ListedAll
  /\ Len(Payload(resp).servers) = 3
  /\ Payload(resp).servers[1].name = Payload(resp).servers[2].name
  /\ Payload(resp).servers[2].category = "official"
  /\ Payload(resp).servers[3].category = "community"

\* the server lines of both sections that have no description clause
BareLines(doc) ==
  {i \in ServerLines(doc, OfficialLinesOf(doc) \cup CommunityLinesOf(doc)) :
     doc[i].desc = None}

DefaultDescriptionFor(doc, S) ==
  \A i \in S :
    \E k \in 1..Len(Payload(resp).servers) :
      LET g == Payload(resp).servers[k]
      IN /\ g.name = Trim(doc[i].name)
         /\ g.url = doc[i].url
         /\ g.description = NoDescription

(***************************************************************************)
(* C14.  A bullet line inside a section that has a link but no description *)
(* clause is not dropped: it yields an entry whose description is          *)
(* 'No description available'.                                             *)
(***************************************************************************)
C14_BareLineKept == ListedAll => DefaultDescriptionFor(readme, BareLines(readme))

\* the part of C14 the code keeps: the line's section is one the parser
\* extracts, the official one closed by a ### heading, the community one by
\* the Resources heading
C14_BareLineKeptInClosedSection ==
  ListedAll =>
    DefaultDescriptionFor(readme,
      {i \in BareLines(readme) :
         IF i \in OfficialLinesOf(readme)
         THEN \E j \in (i + 1)..Len(readme) : readme[j].k = "h3"
         ELSE HasHeading(readme, HeadingResources)})

\* an entry with the default description came out of a line without a
\* description clause
C14_DefaultDescription ==
  /\ ListedAll
  /\ BareLines(readme) # {}
  /\ \E k \in 1..Len(Payload(resp).servers) :
       Payload(resp).servers[k].description = NoDescription

(***************************************************************************)
(* C15.  Parsing never fails: a section whose heading is not found         *)
(* contributes zero entries while the other section is still parsed, a     *)
(* document with neither heading yields an empty entry list, and lines     *)
(* that do not match the bullet format are skipped without error.          *)
(***************************************************************************)
C15_MissingHeading ==
  /\ (req.name = "list_all_github_mcp_servers" /\ req.args # None /\ resp.kind = "throw")
       => resp.value.error = "Error fetching GitHub README"
  /\ (ListedAll /\ ~(HasHeading(readme, HeadingOfficial) /\ HasHeading(readme, HeadingCommunity)))
       => BothSectionsParsed

\* C15 for the official section alone: no community heading, and the
\* official section runs to the Resources heading
C15_OfficialAlone ==
  (ListedAll /\ HasHeading(readme, HeadingOfficial) /\ ~HasHeading(readme, HeadingCommunity)
     /\ ~HasHeading(readme, HeadingOther) /\ HasHeading(readme, HeadingResources))
    => BothSectionsParsed

\* the part of C15 the code keeps: no call fails in the parser, a document
\* with neither heading yields no entry, a community section closed by the
\* Resources heading is parsed without an official one, and an official
\* section closed by a ### heading is parsed without a community one
C15_MissingHeadingClosed ==
  /\ (req.name = "list_all_github_mcp_servers" /\ req.args # None /\ resp.kind = "throw")
       => resp.value.error = "Error fetching GitHub README"
  /\ (ListedAll /\ ~HasHeading(readme, HeadingOfficial) /\ ~HasHeading(readme, HeadingCommunity))
       => Payload(resp).servers = <<>>
  /\ (ListedAll /\ ~HasHeading(readme, HeadingOfficial) /\ HasHeading(readme, HeadingResources))
       => BothSectionsParsed
  /\ (ListedAll /\ ~HasHeading(readme, HeadingCommunity) /\ HasHeading(readme, HeadingOther))
       => BothSectionsParsed

BackedUp == req.name = "backup_config"

\* the backup files other than the one at `path` are as they were
OtherBackupsKept(path) ==
  {b \in backups : b.path # path} = {b \in prev.backups : b.path # path}

(***************************************************************************)
(* C16.  backup writes the config file's content verbatim to a sibling     *)
(* file whose name carries the current timestamp with colons replaced,     *)
(* returns that backup path with success=true, and leaves the config file  *)
(* itself unchanged; when the config file cannot be read it returns        *)
(* success=false and writes no backup file.                                *)
(***************************************************************************)
C16_BackupCopies ==
  BackedUp =>
    /\ file = prev.file
    /\ IF prev.file = FileAbsent
       THEN /\ ReportedFailure(resp)
            /\ ~Wrote(resp)
            /\ backups = prev.backups
       ELSE /\ Succeeded(resp)
            /\ LET path == Payload(resp).backup_path
                   seconds == <<"1970-01-01", "T", "00", "-", "00", "-", ToString(prev.clock)>>
               IN /\ ":" \notin Range(path)
                  /\ path = <<"mcp-config.backup.">> \o seconds \o <<".json">>
                  /\ Payload(resp).timestamp = seconds
                  /\ {b \in backups : b.path = path} = {[path |-> path, data |-> prev.file]}
                  /\ OtherBackupsKept(path)

\* a second backup, a second later, of a config file changed in between:
\* two backup files with different contents, the config file untouched
C16_Witness ==
  /\ BackedUp
  /\ Succeeded(resp)
  /\ prev.clock = 1
  /\ Cardinality(backups) = 2
  /\ Cardinality({b.data : b \in backups}) = 2
  /\ \E b \in backups : b.data = file /\ file.st = "ok"

\* a file that is no JSON is backed up as it is
C16_Garbled ==
  /\ BackedUp
  /\ Succeeded(resp)
  /\ \E b \in backups : b.data = FileGarbled

InFlight(i) == calls[i].pc # "done"

(***************************************************************************)
(* C17.  Operations execute one at a time: the handler of one tool call    *)
(* runs to completion, including its network-fetch and file read/write     *)
(* suspension points, before the handler of the next call starts, so the   *)
(* steps of two calls never interleave.                                    *)
(***************************************************************************)
C17_OneAtATime ==
  \A i, j \in 1..Len(calls) :
    i < j =>
      /\ ~(InFlight(i) /\ InFlight(j))
      /\ calls[j].readAt > 0 => (calls[i].readAt > 0 /\ calls[i].readAt < calls[j].readAt
                                   /\ calls[i].wroteAt < calls[j].readAt)

\* the file that the request of call i makes of the file f
FileAfter(f, i) ==
  CallTool([file |-> f, backups |-> backups, inherited |-> inherited, clock |-> clock],
           calls[i].name, calls[i].args, QuietEnv).file

\* calls i and j both read the file before either wrote it, i wrote first, j
\* wrote last of all
Raced(i, j) ==
  /\ i # j
  /\ calls[i].wroteAt > 0 /\ calls[j].wroteAt > 0
  /\ calls[i].readAt < calls[i].wroteAt /\ calls[i].readAt < calls[j].wroteAt
  /\ calls[j].readAt < calls[i].wroteAt
  /\ calls[i].wroteAt < calls[j].wroteAt
  /\ \A k \in 1..Len(calls) : calls[k].wroteAt <= calls[j].wroteAt

(***************************************************************************)
(* C18.  The config store's read-then-write is unguarded: when two         *)
(* install/uninstall/update_config calls are in flight at once, both can   *)
(* read the file before either writes, and the later write then discards   *)
(* the other call's change (last writer wins) although both calls report   *)
(* success.  As an invariant: whenever two calls have raced in this way,   *)
(* both have reported success and the file is what the later writer alone  *)
(* makes of the file it read, a file without the earlier writer's change.  *)
(***************************************************************************)
C18_LastWriterWins ==
  \A i, j \in 1..Len(calls) :
    Raced(i, j) =>
      /\ Succeeded(calls[i].resp)
      /\ Succeeded(calls[j].resp)
      /\ file = FileAfter(calls[j].seen[1], j)

\* two installs into the empty config both report success, and only the
\* server of the later writer is in the file
C18_Witness ==
  \E i, j \in 1..Len(calls) :
    /\ Raced(i, j)
    /\ calls[i].name = "install_mcp_server" /\ calls[j].name = "install_mcp_server"
    /\ calls[i].seen = Some(FileOf(EmptyConfig, TRUE))
    /\ calls[j].seen = Some(FileOf(EmptyConfig, TRUE))
    /\ Succeeded(calls[i].resp) /\ Succeeded(calls[j].resp)
    /\ InstallName(calls[i].args[1]) # InstallName(calls[j].args[1])
    /\ NamesOf(file) = {InstallName(calls[j].args[1])}

(***************************************************************************)
(* C19.  When the config file exists but cannot be parsed as JSON, install *)
(* treats it as an empty config and, given a valid GitHub URL, overwrites  *)
(* the file with a config that contains only the newly installed server    *)
(* and an empty alwaysAllow list, reporting success=true; whatever the     *)
(* file held before is lost.                                               *)
(***************************************************************************)
C19_GarbledOverwritten ==
  (Called("install_mcp_server")
     /\ prev.file = FileGarbled
     /\ req.args[1].github_url # None
     /\ req.args[1].github_url[1] \in ValidUrls)
    => /\ Succeeded(resp)
       /\ Wrote(resp)
       /\ file.st = "ok"
       /\ file.cfg.mcpServers =
            Some(<<[name |-> InstallName(req.args[1]),
                    cfg |-> ExpectedEntry(req.args[1].github_url[1])]>>)
       /\ file.cfg.alwaysAllow = Some(<<>>)

\* the garbled file was replaced by a config of one server
C19_Witness ==
  /\ InstalledOk
  /\ prev.file = FileGarbled
  /\ file.st = "ok"
  /\ NamesOf(file) = {"demo"}
  /\ RulesOf(file) = <<>>

\* what the client has collected is the category-filtered entry list: every
\* entry once, in order
PagesExact ==
  \E category \in {IF pager.category = None THEN "all" ELSE pager.category[1]} :
    \E expected \in {SelectSeq(parseServers(readme),
                               LAMBDA e : category = "all" \/ e.category = category)} :
      /\ Len(pager.got) = Len(expected)
      /\ \A k \in 1..Len(expected) : SameEntry(pager.got[k], expected[k])
      /\ pager.pages >= 1
      /\ (pager.pages - 1) * pager.limit < Len(expected) \/ pager.pages = 1

(***************************************************************************)
(* C20.  For a fixed registry document, category and limit L with          *)
(* 1 <= L <= 100, repeatedly calling list with offsets 0, L, 2L, ... until *)
(* a response reports has_more=false terminates after finitely many calls, *)
(* and the concatenation of the returned pages is exactly the              *)
(* category-filtered entry list: every entry appears once, in order, none  *)
(* skipped or repeated.                                                    *)
(***************************************************************************)
C20_PagingCompletes == <>[](pager.phase = "done" /\ PagesExact)

\* five full pages of 5 make up the 25 official entries
C20_Witness ==
  /\ pager.phase = "done"
  /\ pager.limit = 5
  /\ pager.pages = 5
  /\ Len(pager.got) = 25
  /\ PagesExact

\* the parsed entries with a GitHub URL that the last install request names
ListedEntriesInstalled ==
  {e \in {parseServers(readme)[i] : i \in 1..Len(parseServers(readme))} :
     /\ GithubMatch(e.url) # None
     /\ req.args[1].server_name = Some(KeyOf(e.name))
     /\ req.args[1].github_url = Some(e.url)}

\* the hint list and search show for an entry
HintShown(e) == Listing(<<e>>)[1].installation.config_example

\* the command and args install has written under the request's name
InstallWritten ==
  LET cfg == GetServer(file.cfg.mcpServers[1], InstallName(req.args[1]))
  IN [command |-> cfg.command, args |-> cfg.args]

\* getInstallationInfo's special case / handleInstall's special case
HintIsSpecial(e) ==
  /\ Includes(ToLowerCase(e.name), Playwright)
  /\ GithubMatch(e.url)[1].owner = "microsoft"

InstallIsSpecial(e) ==
  /\ GithubMatch(e.url)[1].owner = "microsoft"
  /\ GithubMatch(e.url)[1].repo = "playwright-mcp"

(***************************************************************************)
(* C21.  For every parsed entry with a GitHub URL, the installation hint   *)
(* that search/list shows for it (config_example command and args) equals  *)
(* the command and args that install writes to the config when called with *)
(* that entry's name and URL; both apply the Playwright special case to    *)
(* the same entries.                                                       *)
(***************************************************************************)
C21_HintMatchesInstall ==
  InstalledOk =>
    \A e \in ListedEntriesInstalled :
      /\ HintShown(e) = InstallWritten
      /\ HintIsSpecial(e) <=> InstallIsSpecial(e)

\* what does hold: hint and install agree on every entry on which the two
\* special-case tests agree
C21_AgreeWhereTestsAgree ==
  InstalledOk =>
    \A e \in ListedEntriesInstalled :
      (HintIsSpecial(e) <=> InstallIsSpecial(e)) => HintShown(e) = InstallWritten

\* an entry named Playwright in a microsoft repository other than
\* playwright-mcp: the hint is the special case, the install the default
C21_HintSpecialOnly ==
  /\ InstalledOk
  /\ \E e \in ListedEntriesInstalled :
       /\ HintIsSpecial(e) /\ ~InstallIsSpecial(e)
       /\ HintShown(e).args = PlaywrightArgs
       /\ InstallWritten.args = DefaultArgs("demo")

\* an entry not named Playwright at microsoft/playwright-mcp: the install is
\* the special case, the hint the default
C21_InstallSpecialOnly ==
  /\ InstalledOk
  /\ \E e \in ListedEntriesInstalled :
       /\ ~HintIsSpecial(e) /\ InstallIsSpecial(e)
       /\ HintShown(e).args = DefaultArgs("playwright-mcp")
       /\ InstallWritten.args = PlaywrightArgs

=============================================================================
